---------------------------- MODULE Spec2Model ----------------------------
(***************************************************************************)
(* A model of the miko compiler back half:                                 *)
(*   - the Type / Scheme model                    (src/src/syntax.rs)      *)
(*   - the closure-converted IR                   (src/src/core/term.rs)   *)
(*   - the native handle layer and the builder    (src/libllvm/src/wrapper.rs) *)
(*   - top level definitions, forms and operators (src/src/syntax.rs)      *)
(* Each area has its own specification over its own variables; the         *)
(* variables of the other areas stay at their initial value.               *)
(***************************************************************************)
EXTENDS Integers, Sequences, FiniteSets, TLC

VARIABLES
    ts,         \* the sequence handed to Type::product_n
    prodRes,    \* outcome of Type::product_n(ts)
    scm,        \* the scheme Scheme::body is called on
    bodyRes,    \* outcome of Scheme::body(scm)
    term,       \* a constructed TaggedTerm not yet moved into a FunDef, or None
    fundef,     \* the constructed FunDef, or None
    closure,    \* the constructed Closure, or None
    refTypeRes, \* outcome of FunDef::ref_type(fundef)
    lowered,    \* outcome of lowering the pair (closure, fundef)
    ctorArgs,      \* the arguments the live IR values were constructed from
    lastGet,    \* the last accessor call on an IR value: [on, op, out]
    heap,       \* the foreign resources ever created; the index is the raw pointer
    owners,     \* per resource, the number of live owning wrappers holding its pointer
    views,      \* the non-owning (Copy) views handed out: [kind, owner]
    misuse,     \* the kinds of use-after-release that have happened
    funcs,      \* the module's function list, each function with its blocks and instructions
    pos,        \* the builder's insertion point: None, or the block it appends to
    nextId,     \* the number of instructions created so far (the next value handle)
    dumpLog,    \* the dumps made since the module was last mutated
    lastBuild,  \* the last builder call: [by, args, ret, at, before, after, earlier]
    def,        \* the top level definition (a Def), or None
    made,       \* the Def as it was constructed
    calls,      \* the calls made on the Def so far: [op, arg, out, pre, post]
    opCalls     \* the BinOp::as_str / BinOp::take calls made so far: [fn, arg, out]

typeVars == <<ts, prodRes, scm, bodyRes>>
irVars == <<term, fundef, closure, refTypeRes, lowered, ctorArgs, lastGet>>

handleVars == <<heap, owners, views, misuse>>
builderVars == <<funcs, pos, nextId, dumpLog, lastBuild>>
defVars == <<def, made, calls>>
binOpVars == <<opCalls>>
nonTypeVars == <<irVars, handleVars, builderVars, defVars, binOpVars>>
nonIRVars == <<typeVars, handleVars, builderVars, defVars, binOpVars>>
nonHandleVars == <<typeVars, irVars, builderVars, defVars, binOpVars>>
nonBuilderVars == <<typeVars, irVars, handleVars, defVars, binOpVars>>
nonDefVars == <<typeVars, irVars, handleVars, builderVars, binOpVars>>
nonBinOpVars == <<typeVars, irVars, handleVars, builderVars, defVars>>

vars == <<ts, prodRes, scm, bodyRes, term, fundef, closure, refTypeRes, lowered,
          ctorArgs, lastGet,
          heap, owners, views, misuse, funcs, pos, nextId, dumpLog, lastBuild,
          def, made, calls, opCalls>>

(***************************************************************************)
(* Bounds of the model.                                                    *)
(***************************************************************************)
MaxLen == 3         \* longest sequence handed to product_n
MaxNames == 2       \* longest name list of a Scheme::Poly
MaxFv == 2          \* longest free-variable / captured-identifier list
MaxParams == 1      \* longest parameter list of a FunDef
MaxRes == 3         \* foreign resources created in one run
MaxWrap == 2        \* live owning wrappers of one resource
MaxReleases == 2    \* releases of one resource that are counted
MaxRuns == 1        \* runs of one pass manager that are counted
MaxInstrs == 2      \* instructions built in one run
MaxDumps == 2       \* consecutive dumps that are recorded
MaxCalls == 3       \* calls made on one Def
MaxOpCalls == 2     \* BinOp calls made in one run

(***************************************************************************)
(* Outcomes of a call: a returned value, a panic (unwrap on None,          *)
(* unreachable!()), or not called yet.                                     *)
(***************************************************************************)
None == [tag |-> "None"]
NotCalled == [out |-> "none"]
Panic == [out |-> "panic"]
Ok(v) == [out |-> "ok", val |-> v]

(***************************************************************************)
(* enum Type (syntax.rs:237-249)                                           *)
(***************************************************************************)
Void == [tag |-> "Void"]
TVar(n) == [tag |-> "Var", name |-> n]
Con(n) == [tag |-> "Con", name |-> n]
Arr(a, b) == [tag |-> "Arr", l |-> a, r |-> b]
Prod(a, b) == [tag |-> "Prod", l |-> a, r |-> b]
Comp(a, b) == [tag |-> "Comp", l |-> a, r |-> b]

\* The types the inputs are drawn from: every constructor occurs, and Prod
\* occurs as an element, so that a sequence element may itself be a product.
TypeUniverse ==
    { Void, TVar("a"), Con("Int"),
      Prod(Con("Int"), Void), Arr(Void, Con("Int")), Comp(Con("Int"), TVar("a")) }

RECURSIVE SeqsOfLen(_, _)
SeqsOfLen(S, n) ==
    IF n = 0 THEN { <<>> }
    ELSE { <<x>> \o s : x \in S, s \in SeqsOfLen(S, n - 1) }

SeqsUpTo(S, n) == UNION { SeqsOfLen(S, k) : k \in 0..n }

TypeSeqs == SeqsUpTo(TypeUniverse, MaxLen)

(***************************************************************************)
(* enum Scheme (syntax.rs:201-212)                                         *)
(***************************************************************************)
Mono(t) == [tag |-> "Mono", ty |-> t]
Poly(ns, t) == [tag |-> "Poly", names |-> ns, ty |-> t]
Slot == [tag |-> "Slot"]

Names == { "a", "b", "c" }
NameLists == SeqsUpTo(Names, MaxNames)

Schemes ==
    { Mono(t) : t \in TypeUniverse }
      \cup { Poly(ns, t) : ns \in NameLists, t \in TypeUniverse }
      \cup { Slot }

(***************************************************************************)
(* Scheme::body (syntax.rs:223-229): Mono(t) | Poly(_, t) => t,            *)
(* Slot => unreachable!()                                                  *)
(***************************************************************************)
Scheme_body_default(s) ==
    IF s.tag = "Slot" THEN Ok(Void) ELSE Ok(s.ty)

Scheme_body(s) ==
    CASE s.tag = "Mono" -> Ok(s.ty)
      [] s.tag = "Poly" -> Ok(s.ty)
      [] s.tag = "Slot" -> Panic

(***************************************************************************)
(* Type::product_n (syntax.rs:260-272)                                     *)
(*   let mut it = ts.into_iter().rev();                                    *)
(*   let last = it.next().unwrap();                                        *)
(*   let mut res = last;                                                   *)
(*   for ty in it { res = Type::Prod(P(ty), P(res)); }                     *)
(***************************************************************************)
Rev(s) == [i \in 1..Len(s) |-> s[Len(s) + 1 - i]]

RECURSIVE product_n_loop_swapped(_, _)
product_n_loop_swapped(it, res) ==
    IF it = <<>> THEN res
    ELSE product_n_loop_swapped(Tail(it), Prod(res, Head(it)))

RECURSIVE product_n_loop(_, _)
product_n_loop(it, res) ==
    IF it = <<>> THEN res
    ELSE product_n_loop(Tail(it), Prod(Head(it), res))

product_n_norev(s) ==
    IF s = <<>> THEN Panic
    ELSE Ok(product_n_loop(Tail(s), Head(s)))

product_n(s) ==
    LET it == Rev(s)
    IN  IF it = <<>> THEN Panic
        ELSE Ok(product_n_loop(Tail(it), Head(it)))

(***************************************************************************)
(* The Type / Scheme specifications: the input is drawn in Init, the       *)
(* action applies the function to it.                                      *)
(***************************************************************************)
TypeIdle ==
    /\ ts = <<>>
    /\ prodRes = NotCalled
    /\ scm = Slot
    /\ bodyRes = NotCalled

IRIdle ==
    /\ term = None
    /\ fundef = None
    /\ closure = None
    /\ refTypeRes = NotCalled
    /\ lowered = NotCalled
    /\ ctorArgs = [term |-> None, fundef |-> None, closure |-> None]
    /\ lastGet = NotCalled

HandlesIdle ==
    /\ heap = <<>>
    /\ owners = <<>>
    /\ views = {}
    /\ misuse = {}

BuilderIdle ==
    /\ funcs = <<>>
    /\ pos = None
    /\ nextId = 0
    /\ dumpLog = <<>>
    /\ lastBuild = NotCalled

DefIdle ==
    /\ def = None
    /\ made = None
    /\ calls = <<>>

BinOpIdle == opCalls = <<>>

InitProduct ==
    /\ ts \in TypeSeqs
    /\ prodRes = NotCalled
    /\ scm = Slot
    /\ bodyRes = NotCalled
    /\ IRIdle
    /\ HandlesIdle
    /\ BuilderIdle
    /\ DefIdle
    /\ BinOpIdle

CallProductN ==
    /\ prodRes = NotCalled
    /\ prodRes' = product_n(ts)
    /\ UNCHANGED <<ts, scm, bodyRes>>
    /\ UNCHANGED nonTypeVars

NextProduct == CallProductN

SpecProduct == InitProduct /\ [][NextProduct]_vars

InitScheme ==
    /\ scm \in Schemes
    /\ bodyRes = NotCalled
    /\ ts = <<>>
    /\ prodRes = NotCalled
    /\ IRIdle
    /\ HandlesIdle
    /\ BuilderIdle
    /\ DefIdle
    /\ BinOpIdle

CallBody ==
    /\ bodyRes = NotCalled
    /\ bodyRes' = Scheme_body(scm)
    /\ UNCHANGED <<ts, prodRes, scm>>
    /\ UNCHANGED nonTypeVars

NextScheme == CallBody

SpecScheme == InitScheme /\ [][NextScheme]_vars

(***************************************************************************)
(* C3: Scheme::body returns exactly the enclosed type t for every Mono(t)  *)
(* and every Poly(names, t), whatever the name list, and for Slot it       *)
(* panics and returns no type.                                             *)
(***************************************************************************)
C3_BodyExact ==
    bodyRes # NotCalled =>
        /\ \A t \in TypeUniverse : scm = Mono(t) => bodyRes = Ok(t)
        /\ \A t \in TypeUniverse, ns \in NameLists :
               scm = Poly(ns, t) => bodyRes = Ok(t)
        /\ scm = Slot => (bodyRes = Panic /\ bodyRes.out # "ok")

\* body was called on a Slot (the fatal case) ...
C3_Witness ==
    /\ scm = Slot
    /\ bodyRes = Panic

(***************************************************************************)
(* Reference definitions the product_n claims are stated with.             *)
(***************************************************************************)
\* Prod(t1, Prod(t2, ... Prod(t(n-1), tn))) by recursion from the left
RECURSIVE RightFold(_)
RightFold(s) ==
    IF Len(s) = 1 THEN s[1]
    ELSE Prod(Head(s), RightFold(Tail(s)))

\* number of Prod nodes on the right spine
RECURSIVE RightDepth(_)
RightDepth(t) ==
    IF t.tag = "Prod" THEN 1 + RightDepth(t.r) ELSE 0

\* decomposition along the whole right spine, left to right
RECURSIVE Decompose(_)
Decompose(t) ==
    IF t.tag = "Prod" THEN <<t.l>> \o Decompose(t.r) ELSE <<t>>

\* decomposition into exactly n components (n - 1 steps down the right spine);
\* <<>> when the spine is too short
RECURSIVE DecomposeN(_, _)
DecomposeN(t, n) ==
    IF n <= 1 THEN <<t>>
    ELSE IF t.tag = "Prod" THEN <<t.l>> \o DecomposeN(t.r, n - 1)
    ELSE <<>>

(***************************************************************************)
(* C4 as stated: product_n of a sequence of length n >= 1 is a right nest  *)
(* of depth n-1, decomposing it along its right spine gives the sequence   *)
(* back, and no other sequence has the same product.                       *)
(***************************************************************************)
C4_Original ==
    (prodRes # NotCalled /\ Len(ts) >= 1) =>
        /\ prodRes.out = "ok"
        /\ RightDepth(prodRes.val) = Len(ts) - 1
        /\ Decompose(prodRes.val) = ts
        /\ \A other \in TypeSeqs :
               (other # ts /\ other # <<>>) => product_n(other) # prodRes

(***************************************************************************)
(* C4 amended: product_n of a sequence of length n >= 1 has at least n-1   *)
(* Prod nodes on its right spine (exactly n-1 when the last element is not *)
(* a Prod), decomposing it n-1 steps down the right spine gives the        *)
(* sequence back, and no other sequence of the same length has the same    *)
(* product.                                                                *)
(***************************************************************************)
C4_RoundTrip ==
    (prodRes # NotCalled /\ Len(ts) >= 1) =>
        /\ prodRes.out = "ok"
        /\ RightDepth(prodRes.val) >= Len(ts) - 1
        /\ ts[Len(ts)].tag # "Prod" => RightDepth(prodRes.val) = Len(ts) - 1
        /\ DecomposeN(prodRes.val, Len(ts)) = ts
        /\ \A other \in SeqsOfLen(TypeUniverse, Len(ts)) :
               other # ts => product_n(other) # prodRes

\* a sequence of three whose last element is itself a Prod has been folded
C4_Witness ==
    /\ Len(ts) = 3
    /\ ts[3].tag = "Prod"
    /\ prodRes.out = "ok"

(***************************************************************************)
(* C5: product_n equals the reference right fold on every non-empty        *)
(* sequence (a one-element sequence yields the element, [a,b,c] yields     *)
(* Prod(a, Prod(b, c))), and panics on the empty sequence.                 *)
(***************************************************************************)
C5_RightFold ==
    prodRes # NotCalled =>
        /\ ts = <<>> => prodRes = Panic
        /\ ts # <<>> => prodRes = Ok(RightFold(ts))
        /\ Len(ts) = 1 => prodRes = Ok(ts[1])
        /\ Len(ts) = 3 => prodRes = Ok(Prod(ts[1], Prod(ts[2], ts[3])))

\* three different elements have been folded
C5_Witness ==
    /\ Len(ts) = 3
    /\ ts[1] # ts[2] /\ ts[2] # ts[3] /\ ts[1] # ts[3]
    /\ prodRes.out = "ok"

(***************************************************************************)
(* The closure-converted IR (core/term.rs).                                *)
(***************************************************************************)
\* struct VarDecl(pub Name, pub Scheme)  (syntax.rs:319)
VarDecl(n, s) == [name |-> n, scheme |-> s]

\* enum Term (term.rs:107-144), the leaves the model draws bodies from
Lit(i) == [tag |-> "Lit", val |-> i]
Var(id) == [tag |-> "Var", id |-> id]

Ids == { "f", "g" }
VarIds == { "x", "y" }
IRSchemes == { Mono(Con("Int")), Poly(<<"a">>, TVar("a")), Slot }
VarDecls == { VarDecl("x", Mono(Con("Int"))), VarDecl("y", Slot) }
TermNodes == { Lit(1), Var("x") }

\* TaggedTerm::new (term.rs:92-94)
TaggedTerm_new(ty, node) == [ty |-> ty, node |-> node]

\* FunDef::new (term.rs:47-61)
FunDef_new(name, ty, params, freevars, body) ==
    [name |-> name, params |-> params, freevars |-> freevars,
     body |-> body, ty |-> ty]

\* Closure::new (term.rs:155-160)
Closure_new(entry, actualFv) == [entry |-> entry, actualFv |-> actualFv]

\* FunDef::name (term.rs:63-65)
FunDef_name(f) == f.name

\* FunDef::fv (term.rs:67-69)
FunDef_fv_reversed(f) == Rev(f.freevars)

FunDef_fv(f) == f.freevars

\* FunDef::body (term.rs:71-73)
FunDef_body(f) == f.body

\* FunDef::parameters (term.rs:79-81)
FunDef_parameters(f) == f.params

\* TaggedTerm::ref_scheme (term.rs:96-98)
TaggedTerm_ref_scheme(t) == t.ty

\* TaggedTerm::body (term.rs:99-101)
TaggedTerm_body(t) == t.node

\* FunDef::ref_type (term.rs:75-77): self.ty.body()
FunDef_ref_type(f) == Scheme_body(f.ty)

\* Closure::fv (term.rs:162-164)
Closure_fv(c) == c.actualFv

\* Closure::entry (term.rs:166-168)
Closure_entry(c) == c.entry

(***************************************************************************)
(* Lowering of a closure against the FunDef its entry names.  The code     *)
(* generator lives outside core/term.rs; this is its documented contract:  *)
(* an arity mismatch between the captured identifiers and the target's     *)
(* free variables is a fatal internal-consistency failure.                 *)
(***************************************************************************)
LowerClosure_unchecked(c, f) == Ok(<<c, f>>)

LowerClosure(c, f) ==
    IF Len(Closure_fv(c)) = Len(FunDef_fv(f)) THEN Ok(<<c, f>>) ELSE Panic

InitIR ==
    /\ TypeIdle
    /\ IRIdle
    /\ HandlesIdle
    /\ BuilderIdle
    /\ DefIdle
    /\ BinOpIdle

MakeTerm ==
    /\ term = None
    /\ fundef = None
    /\ \E ty \in IRSchemes, node \in TermNodes :
           /\ term' = TaggedTerm_new(ty, node)
           /\ ctorArgs' = [ctorArgs EXCEPT !.term = [ty |-> ty, node |-> node]]
    /\ UNCHANGED <<fundef, closure, refTypeRes, lowered, lastGet>>
    /\ UNCHANGED nonIRVars

\* the body is moved into the FunDef
MakeFunDef ==
    /\ fundef = None
    /\ term # None
    /\ \E name \in Ids, ty \in IRSchemes,
          params \in SeqsUpTo(VarDecls, MaxParams),
          freevars \in SeqsUpTo(VarDecls, MaxFv) :
           /\ fundef' = FunDef_new(name, ty, params, freevars, term)
           /\ ctorArgs' = [ctorArgs EXCEPT
                           !.term = None,
                           !.fundef = [name |-> name, ty |-> ty, params |-> params,
                                       freevars |-> freevars, body |-> ctorArgs.term]]
    /\ term' = None
    /\ UNCHANGED <<closure, refTypeRes, lowered, lastGet>>
    /\ UNCHANGED nonIRVars

MakeClosure ==
    /\ closure = None
    /\ \E entry \in Ids, actualFv \in SeqsUpTo(VarIds, MaxFv) :
           /\ closure' = Closure_new(entry, actualFv)
           /\ ctorArgs' = [ctorArgs EXCEPT
                           !.closure = [entry |-> entry, actualFv |-> actualFv]]
    /\ UNCHANGED <<term, fundef, refTypeRes, lowered, lastGet>>
    /\ UNCHANGED nonIRVars

CallRefType ==
    /\ fundef # None
    /\ refTypeRes = NotCalled
    /\ refTypeRes' = FunDef_ref_type(fundef)
    /\ UNCHANGED <<term, fundef, closure, lowered, ctorArgs, lastGet>>
    /\ UNCHANGED nonIRVars

Lower ==
    /\ closure # None
    /\ fundef # None
    /\ Closure_entry(closure) = FunDef_name(fundef)
    /\ lowered = NotCalled
    /\ lowered' = LowerClosure(closure, fundef)
    /\ UNCHANGED <<term, fundef, closure, refTypeRes, ctorArgs, lastGet>>
    /\ UNCHANGED nonIRVars

\* The accessors take &self: the call returns a value and leaves every IR
\* value as it is.
Got(on, op, out) ==
    /\ lastGet' = [on |-> on, op |-> op, out |-> out]
    /\ UNCHANGED <<term, fundef, closure, refTypeRes, lowered, ctorArgs>>
    /\ UNCHANGED nonIRVars

\* FunDef::name / fv / body / parameters / ref_type (term.rs:63-81)
GetFunDefName == fundef # None /\ Got("fundef", "name", FunDef_name(fundef))
GetFunDefFv == fundef # None /\ Got("fundef", "fv", FunDef_fv(fundef))
GetFunDefBody == fundef # None /\ Got("fundef", "body", FunDef_body(fundef))
GetFunDefParameters ==
    fundef # None /\ Got("fundef", "parameters", FunDef_parameters(fundef))
GetFunDefRefType ==
    fundef # None /\ Got("fundef", "ref_type", FunDef_ref_type(fundef))

\* TaggedTerm::ref_scheme / body (term.rs:96-101), on a term of its own or
\* on the body borrowed from a FunDef
GetTermScheme ==
    \/ term # None /\ Got("term", "ref_scheme", TaggedTerm_ref_scheme(term))
    \/ fundef # None /\ Got("fundef.body", "ref_scheme",
                              TaggedTerm_ref_scheme(FunDef_body(fundef)))
GetTermBody ==
    \/ term # None /\ Got("term", "body", TaggedTerm_body(term))
    \/ fundef # None /\ Got("fundef.body", "body",
                              TaggedTerm_body(FunDef_body(fundef)))

\* Closure::fv / entry (term.rs:162-168)
GetClosureFv == closure # None /\ Got("closure", "fv", Closure_fv(closure))
GetClosureEntry == closure # None /\ Got("closure", "entry", Closure_entry(closure))

NextIR ==
    \/ MakeTerm
    \/ MakeFunDef
    \/ MakeClosure
    \/ CallRefType
    \/ Lower

SpecIR == InitIR /\ [][NextIR]_vars

(***************************************************************************)
(* C6: every closure accepted together with the FunDef its entry names has *)
(* as many captured identifiers as the FunDef has free variables; a pair   *)
(* whose lengths differ is rejected by lowering.                           *)
(***************************************************************************)
C6_ArityMatch ==
    lowered # NotCalled =>
        /\ lowered.out = "ok" =>
               Len(lowered.val[1].actualFv) = Len(lowered.val[2].freevars)
        /\ Len(closure.actualFv) # Len(fundef.freevars) => lowered = Panic

\* a mismatched pair (one captured identifier, two free variables) was
\* constructed and handed to lowering
C6_Witness ==
    /\ lowered # NotCalled
    /\ closure # None /\ fundef # None
    /\ Len(closure.actualFv) = 1
    /\ Len(fundef.freevars) = 2

\* Construction followed by any sequence of accessor calls
NextAccess ==
    \/ MakeTerm
    \/ MakeFunDef
    \/ MakeClosure
    \/ GetFunDefName
    \/ GetFunDefFv
    \/ GetFunDefBody
    \/ GetFunDefParameters
    \/ GetFunDefRefType
    \/ GetTermScheme
    \/ GetTermBody
    \/ GetClosureFv
    \/ GetClosureEntry

SpecAccess == InitIR /\ [][NextAccess]_vars

(***************************************************************************)
(* C11: the closure-converted IR is immutable after construction: over any *)
(* sequence of accessor calls (name, fv, body, ref_type, parameters,       *)
(* ref_scheme, entry) every accessor of a FunDef, TaggedTerm or Closure    *)
(* returns the value given to the constructor, the free-variable and       *)
(* captured-identifier lists in their original order, and no call changes  *)
(* an IR value.                                                            *)
(***************************************************************************)
Expected(on, op) ==
    CASE on = "fundef" /\ op = "name" -> ctorArgs.fundef.name
      [] on = "fundef" /\ op = "fv" -> ctorArgs.fundef.freevars
      [] on = "fundef" /\ op = "body" -> ctorArgs.fundef.body
      [] on = "fundef" /\ op = "parameters" -> ctorArgs.fundef.params
      [] on = "fundef" /\ op = "ref_type" ->
             IF ctorArgs.fundef.ty = Slot THEN Panic
             ELSE Ok(ctorArgs.fundef.ty.ty)
      [] on = "fundef.body" /\ op = "ref_scheme" -> ctorArgs.fundef.body.ty
      [] on = "fundef.body" /\ op = "body" -> ctorArgs.fundef.body.node
      [] on = "term" /\ op = "ref_scheme" -> ctorArgs.term.ty
      [] on = "term" /\ op = "body" -> ctorArgs.term.node
      [] on = "closure" /\ op = "fv" -> ctorArgs.closure.actualFv
      [] on = "closure" /\ op = "entry" -> ctorArgs.closure.entry

StoredAsGiven ==
    /\ term # None =>
           /\ TaggedTerm_ref_scheme(term) = ctorArgs.term.ty
           /\ TaggedTerm_body(term) = ctorArgs.term.node
    /\ fundef # None =>
           /\ FunDef_name(fundef) = ctorArgs.fundef.name
           /\ FunDef_fv(fundef) = ctorArgs.fundef.freevars
           /\ FunDef_parameters(fundef) = ctorArgs.fundef.params
           /\ TaggedTerm_ref_scheme(FunDef_body(fundef)) = ctorArgs.fundef.body.ty
           /\ TaggedTerm_body(FunDef_body(fundef)) = ctorArgs.fundef.body.node
           /\ FunDef_body(fundef) = ctorArgs.fundef.body
    /\ closure # None =>
           /\ Closure_fv(closure) = ctorArgs.closure.actualFv
           /\ Closure_entry(closure) = ctorArgs.closure.entry

C11_Immutable ==
    /\ [](/\ StoredAsGiven
          /\ lastGet # NotCalled =>
                 ((lastGet.on = "term" => term # None)
                    => lastGet.out = Expected(lastGet.on, lastGet.op)))
    /\ [][/\ (term # None /\ term' # None) => term' = term
          /\ fundef # None => fundef' = fundef
          /\ closure # None => closure' = closure]_vars

\* fv was called on a FunDef with two different free variables, next to a
\* closure that captures two identifiers
C11_Witness ==
    /\ lastGet # NotCalled
    /\ lastGet.on = "fundef" /\ lastGet.op = "fv"
    /\ Len(lastGet.out) = 2
    /\ lastGet.out[1] # lastGet.out[2]
    /\ closure # None
    /\ Len(closure.actualFv) = 2


(***************************************************************************)
(* C7 as stated: no scheme held by a constructed TaggedTerm or FunDef (its *)
(* own scheme, the declared type, the schemes of params and freevars) is   *)
(* Slot, and FunDef::ref_type never fails.                                 *)
(***************************************************************************)
C7_NoSlot ==
    /\ term # None => term.ty # Slot
    /\ fundef # None =>
           /\ fundef.ty # Slot
           /\ fundef.body.ty # Slot
           /\ \A i \in 1..Len(fundef.params) : fundef.params[i].scheme # Slot
           /\ \A i \in 1..Len(fundef.freevars) : fundef.freevars[i].scheme # Slot
    /\ refTypeRes # Panic

(***************************************************************************)
(* The native handle layer (libllvm/src/wrapper.rs).                       *)
(*                                                                         *)
(* A foreign resource is a record on the heap; its index stands for the    *)
(* raw pointer.  An owning wrapper (LLVMContext, LLVMModule, LLVMBuilder,  *)
(* LLVMFunctionPassManager) is a struct holding the raw pointer; it is     *)
(* Clone, from_ref makes one out of any raw pointer, and dropping one      *)
(* calls the dispose function of its kind.  A view (LLVMType, LLVMValue,   *)
(* LLVMFunction, LLVMBasicBlock) is Copy and has no Drop.                  *)
(***************************************************************************)
Resource(kind, parent) ==
    [kind |-> kind, parent |-> parent, released |-> 0,
     passes |-> <<>>, inits |-> 0, initAt |-> 0, runs |-> 0]

\* parent 0: the global context, which is never disposed
LLVMContextCreate == Resource("ctx", 0)
LLVMModuleCreateWithName == Resource("mod", 0)
LLVMModuleCreateWithNameInContext(c) == Resource("mod", c)
LLVMCreateBuilderInContext(c) == Resource("bld", c)
LLVMCreateFunctionPassManagerForModule(m) == Resource("fpm", m)

LLVMAddPass(p, pass) == [p EXCEPT !.passes = Append(@, pass)]

LLVMInitializeFunctionPassManager(p) ==
    [p EXCEPT !.inits = @ + 1, !.initAt = Len(p.passes)]

\* LLVMFunctionPassManager::init_for_module (wrapper.rs:180-196)
init_for_module(m) ==
    LET p0 == LLVMCreateFunctionPassManagerForModule(m)
        p1 == LLVMAddPass(p0, "BasicAliasAnalysis")
        p2 == LLVMAddPass(p1, "InstructionCombining")
        p3 == LLVMAddPass(p2, "Reassociate")
        p4 == LLVMAddPass(p3, "GVN")
        p5 == LLVMAddPass(p4, "CFGSimplification")
        p6 == LLVMAddPass(p5, "MergedLoadStoreMotion")
        p7 == LLVMAddPass(p6, "ConstantPropagation")
        p8 == LLVMAddPass(p7, "PromoteMemoryToRegister")
        p9 == LLVMAddPass(p8, "TailCallElimination")
    IN  LLVMInitializeFunctionPassManager(p9)

\* Drop for LLVMModule / LLVMContext / LLVMBuilder / LLVMFunctionPassManager
\* (wrapper.rs:357-384): the dispose function is called on self.0
Dispose(r) == [r EXCEPT !.released = @ + 1]

\* LLVMRunFunctionPassManager (wrapper.rs:197-201)
LLVMRunFunctionPassManager(p) ==
    [p EXCEPT !.runs = IF @ < MaxRuns THEN @ + 1 ELSE @]

Ptrs == 1..Len(heap)
OfKind(k) == { r \in Ptrs : heap[r].kind = k }
Wrapped(k) == { r \in OfKind(k) : owners[r] > 0 }

\* the resource has not been disposed, nor has the one it was created in
RECURSIVE Live(_)
Live(r) ==
    IF r = 0 THEN TRUE
    ELSE heap[r].released = 0 /\ Live(heap[r].parent)

Note(cond, what) == IF cond THEN misuse \cup { what } ELSE misuse

Alloc(rsrc) ==
    /\ Len(heap) < MaxRes
    /\ heap' = Append(heap, rsrc)
    /\ owners' = Append(owners, 1)

InitHandles ==
    /\ TypeIdle
    /\ IRIdle
    /\ HandlesIdle
    /\ BuilderIdle
    /\ DefIdle
    /\ BinOpIdle

\* LLVMContext::new (wrapper.rs:74-76)
ContextNew ==
    /\ Alloc(LLVMContextCreate)
    /\ UNCHANGED <<views, misuse>>
    /\ UNCHANGED nonHandleVars

\* LLVMModule::new (wrapper.rs:147-149)
ModuleNew ==
    /\ Alloc(LLVMModuleCreateWithName)
    /\ UNCHANGED <<views, misuse>>
    /\ UNCHANGED nonHandleVars

\* LLVMModule::in_ctx (wrapper.rs:150-152)
ModuleInCtx ==
    \E c \in Wrapped("ctx") :
        /\ Alloc(LLVMModuleCreateWithNameInContext(c))
        /\ misuse' = Note(~Live(c), "handle used after release")
        /\ UNCHANGED views
        /\ UNCHANGED nonHandleVars

\* LLVMBuilder::in_ctx (wrapper.rs:280-282)
BuilderInCtx ==
    \E c \in Wrapped("ctx") :
        /\ Alloc(LLVMCreateBuilderInContext(c))
        /\ misuse' = Note(~Live(c), "handle used after release")
        /\ UNCHANGED views
        /\ UNCHANGED nonHandleVars

\* LLVMFunctionPassManager::init_for_module (wrapper.rs:180-196)
InitForModule ==
    \E m \in Wrapped("mod") :
        /\ Alloc(init_for_module(m))
        /\ misuse' = Note(~Live(m), "handle used after release")
        /\ UNCHANGED views
        /\ UNCHANGED nonHandleVars

\* #[derive(Clone)] on the four owning wrappers (wrapper.rs:23-24)
Clone ==
    \E r \in Ptrs :
        /\ owners[r] > 0
        /\ owners[r] < MaxWrap
        /\ owners' = [owners EXCEPT ![r] = @ + 1]
        /\ UNCHANGED <<heap, views, misuse>>
        /\ UNCHANGED nonHandleVars

\* from_ref (wrapper.rs:26-28) on a pointer raw_ptr (wrapper.rs:29-31) gave:
\* the pointer is Copy and outlives the wrapper it was read from
FromRef ==
    \E r \in Ptrs :
        /\ owners[r] < MaxWrap
        /\ owners' = [owners EXCEPT ![r] = @ + 1]
        /\ UNCHANGED <<heap, views, misuse>>
        /\ UNCHANGED nonHandleVars

\* LLVMFunctionPassManager::from_ref (wrapper.rs:26-28) on a pass manager
\* reference that init_for_module did not make: one made by the backend's
\* LLVMCreateFunctionPassManagerForModule, re-exported at wrapper.rs:13
FromRefForeign ==
    \E m \in Wrapped("mod") :
        /\ Alloc(LLVMCreateFunctionPassManagerForModule(m))
        /\ misuse' = Note(~Live(m), "handle used after release")
        /\ UNCHANGED views
        /\ UNCHANGED nonHandleVars

\* drop of one owning wrapper at the end of its scope (wrapper.rs:357-384)
Drop ==
    \E r \in Ptrs :
        /\ owners[r] > 0
        /\ heap[r].released < MaxReleases
        /\ owners' = [owners EXCEPT ![r] = @ - 1]
        /\ heap' = [heap EXCEPT ![r] = Dispose(@)]
        /\ misuse' = Note(~Live(heap[r].parent),
                          "dependent released after its owner")
        /\ UNCHANGED views
        /\ UNCHANGED nonHandleVars

\* LLVMContext::get_int32_type (wrapper.rs:80) and the other type getters
GetType ==
    \E c \in Wrapped("ctx") :
        /\ views' = views \cup { [kind |-> "type", owner |-> c] }
        /\ misuse' = Note(~Live(c), "handle used after release")
        /\ UNCHANGED <<heap, owners>>
        /\ UNCHANGED nonHandleVars

\* LLVMModule::add_function (wrapper.rs:169-175)
AddFunctionView ==
    \E m \in Wrapped("mod") :
        /\ views' = views \cup { [kind |-> "function", owner |-> m] }
        /\ misuse' = Note(~Live(m), "handle used after release")
        /\ UNCHANGED <<heap, owners>>
        /\ UNCHANGED nonHandleVars

\* LLVMType::get_ptr (wrapper.rs:205-207), LLVMFunction::count_params
\* (wrapper.rs:245-247): an operation on a view
UseView ==
    \E v \in views :
        /\ misuse' = Note(~Live(v.owner), "view used after its owner")
        /\ UNCHANGED <<heap, owners, views>>
        /\ UNCHANGED nonHandleVars

\* LLVMBuilder::alloca (wrapper.rs:295) and the other build operations
BuilderUse ==
    \E b \in Wrapped("bld"), v \in views :
        /\ v.kind = "type"
        /\ misuse' = (Note(~Live(heap[b].parent) /\ heap[b].released = 0,
                           "dependent used after its owner")
                        \cup (IF heap[b].released > 0
                              THEN { "handle used after release" } ELSE {})
                        \cup (IF ~Live(v.owner)
                              THEN { "view used after its owner" } ELSE {}))
        /\ UNCHANGED <<heap, owners, views>>
        /\ UNCHANGED nonHandleVars

\* LLVMFunctionPassManager::run (wrapper.rs:197-201)
Run ==
    \E p \in Wrapped("fpm"), f \in views :
        /\ f.kind = "function"
        /\ heap' = [heap EXCEPT ![p] = LLVMRunFunctionPassManager(@)]
        /\ misuse' = (Note(~Live(p), "handle used after release")
                        \cup (IF ~Live(f.owner)
                              THEN { "view used after its owner" } ELSE {}))
        /\ UNCHANGED <<owners, views>>
        /\ UNCHANGED nonHandleVars

NextHandles ==
    \/ ContextNew
    \/ ModuleNew
    \/ ModuleInCtx
    \/ BuilderInCtx
    \/ InitForModule
    \/ Clone
    \/ FromRef
    \/ FromRefForeign
    \/ Drop
    \/ GetType
    \/ AddFunctionView
    \/ UseView
    \/ BuilderUse
    \/ Run

SpecHandles == InitHandles /\ [][NextHandles]_vars

(***************************************************************************)
(* C1 as stated: over every sequence of construction, from_ref, clone,     *)
(* raw_ptr and drop, each foreign resource is released exactly once: never *)
(* twice, and once when all its wrappers are gone.                         *)
(***************************************************************************)
C1_ReleasedExactlyOnce ==
    \A r \in Ptrs :
        /\ heap[r].released <= 1
        /\ owners[r] = 0 => heap[r].released = 1

(***************************************************************************)
(* C2 as stated: no operation is applied to a view after its owning        *)
(* context or module was dropped, and no builder, module or pass manager   *)
(* is alive, used or released after the context or module it was created   *)
(* for was dropped.                                                        *)
(***************************************************************************)
C2_NoUseAfterRelease ==
    /\ misuse = {}
    /\ \A r \in Ptrs : owners[r] > 0 => Live(heap[r].parent)

(***************************************************************************)
(* C8 as stated: every pass manager on which run was called holds exactly  *)
(* the nine passes in the documented order and was initialized exactly     *)
(* once, after all nine registrations.                                     *)
(***************************************************************************)
Pipeline ==
    << "BasicAliasAnalysis", "InstructionCombining", "Reassociate", "GVN",
       "CFGSimplification", "MergedLoadStoreMotion", "ConstantPropagation",
       "PromoteMemoryToRegister", "TailCallElimination" >>

C8_PipelineBeforeRun ==
    \A p \in OfKind("fpm") :
        heap[p].runs > 0 =>
            /\ heap[p].passes = Pipeline
            /\ heap[p].inits = 1
            /\ heap[p].initAt = 9

(***************************************************************************)
(* The module, its functions and the instruction builder                   *)
(* (libllvm/src/wrapper.rs).  One module and one builder exist; a function *)
(* is [name, blocks], a block [label, instrs], and an instruction carries  *)
(* the value handle the build call returned (id), its opcode and operands, *)
(* and, for a phi, the incoming values and blocks as the backend keeps     *)
(* them: two parallel lists.  The fields by and given record which            *)
(* wrapper method made the instruction and the pairs it was given; they    *)
(* are not part of the module's text.                                      *)
(***************************************************************************)
FuncNames == { "f" }
BlockLabels == { "then", "else" }
\* the value each branch of a diamond leaves for the join
BranchValue(label) == IF label = "then" THEN "a" ELSE "b"

Inst(id, op, args, by, given) ==
    [id |-> id, op |-> op, args |-> args, vals |-> <<>>, blks |-> <<>>,
     by |-> by, given |-> given]

\* the LLVMBasicBlock handles of function fi
BlocksOf(fi) == { <<fi, bi>> : bi \in 1..Len(funcs[fi].blocks) }
AllBlocks == UNION { BlocksOf(fi) : fi \in 1..Len(funcs) }

\* IRBuilder insertion: at the end of the block the builder points to; an
\* unpositioned builder creates the instruction in no block
InsertAt_front(fs, p, inst) ==
    IF p = None THEN fs
    ELSE [fs EXCEPT ![p[1]].blocks[p[2]].instrs = <<inst>> \o @]

InsertAt(fs, p, inst) ==
    IF p = None THEN fs
    ELSE [fs EXCEPT ![p[1]].blocks[p[2]].instrs = Append(@, inst)]

\* The values handed to the builder as operands: "a", "b" and "c" are
\* arguments of the function (i32, i32, i1), "p" and "s" pointer arguments
\* (to an i32, to a struct), "k" an i32 constant and "g" a global variable
\* of the struct type, which is a constant pointer.
ValueType(v) ==
    CASE v \in { "a", "b", "k" } -> "i32"
      [] v = "c" -> "i1"
      [] v = "p" -> "i32*"
      [] v \in { "s", "g" } -> "%S*"
IsConstant(v) == v \in { "k", "g" }
Null == "null"
BitCastInputs == { <<"p", "i32*">>, <<"p", "i64*">>, <<"k", "float">> }
StructPtrs == { "s", "g" }

\* LLVMValue handles: an instruction, an operand handed back, or a
\* constant expression, which is no instruction
InstValue(id) == [value |-> "inst", id |-> id]
Operand(v) == [value |-> "operand", name |-> v]
ConstExpr(op, args) == [value |-> "constexpr", op |-> op, args |-> args]

\* LLVMBuildRet: `ret val`, and `ret void` for a null val
LLVMBuildRet(id, val, by) == Inst(id, "ret", <<val>>, by, <<>>)

\* LLVMBuildBitCast: the backend's IRBuilder returns val itself when it
\* already has the destination type, folds a cast of a constant into a
\* constant expression, and inserts a cast instruction otherwise
LLVMBuildBitCast(id, val, dest_ty, by) ==
    IF ValueType(val) = dest_ty THEN [ret |-> Operand(val), inst |-> None]
    ELSE IF IsConstant(val)
         THEN [ret |-> ConstExpr("bitcast", <<val, dest_ty>>), inst |-> None]
         ELSE [ret |-> InstValue(id),
               inst |-> Inst(id, "bitcast", <<val, dest_ty>>, by, <<>>)]

\* LLVMBuildStructGEP: the address of field idx; folded into a constant
\* expression when the pointer is a constant
LLVMBuildStructGEP(id, ptr, idx, by) ==
    IF IsConstant(ptr)
    THEN [ret |-> ConstExpr("getelementptr", <<ptr, 0, idx>>), inst |-> None]
    ELSE [ret |-> InstValue(id),
          inst |-> Inst(id, "getelementptr", <<ptr, 0, idx>>, by, <<>>)]

\* LLVMBuildPhi: a phi without incoming pairs
LLVMBuildPhi(id, ty, by, given) == Inst(id, "phi", <<ty>>, by, given)

\* LLVMAddIncoming(phi, vals, blks, count): appends count pairs
LLVMAddIncoming(phi, vals, blks, count) ==
    [phi EXCEPT !.vals = @ \o SubSeq(vals, 1, count),
                !.blks = @ \o SubSeq(blks, 1, count)]

\* LLVMBuilder::phi_node (wrapper.rs:304-317): build the empty phi, unzip
\* the pairs, attach them
phi_node_crossed(id, ty, incoming) ==
    LET phi == LLVMBuildPhi(id, ty, "phi_node", incoming)
        vals == [i \in 1..Len(incoming) |-> incoming[i].value]
        blks == [i \in 1..Len(incoming) |-> incoming[Len(incoming) + 1 - i].block]
        count == Len(vals)
    IN  LLVMAddIncoming(phi, vals, blks, count)

phi_node(id, ty, incoming) ==
    LET phi == LLVMBuildPhi(id, ty, "phi_node", incoming)
        vals == [i \in 1..Len(incoming) |-> incoming[i].value]
        blks == [i \in 1..Len(incoming) |-> incoming[i].block]
        count == Len(vals)
    IN  LLVMAddIncoming(phi, vals, blks, count)

\* the (value, block) pair lists phi_node is called with: the pairs of any
\* of the given predecessor blocks, each with its branch's value, in any order
RECURSIVE PairLists(_)
PairLists(blocks) ==
    { <<>> } \cup
    UNION { { <<[value |-> BranchValue(funcs[b[1]].blocks[b[2]].label),
                 block |-> b]>> \o rest :
                rest \in PairLists(blocks \ { b }) } :
            b \in blocks }

(***************************************************************************)
(* LLVMDumpModule (wrapper.rs:153-155): the module's text goes to stderr   *)
(* and the module is left as it is.  The text lists the functions in       *)
(* order, each with its blocks and their instructions.                     *)
(***************************************************************************)
InstLine(i) ==
    << "inst", i.id, i.op, i.args,
       [k \in 1..Len(i.vals) |-> <<i.vals[k], i.blks[k]>>] >>

RECURSIVE InstLines(_)
InstLines(is) ==
    IF is = <<>> THEN <<>> ELSE <<InstLine(Head(is))>> \o InstLines(Tail(is))

RECURSIVE BlockLines(_)
BlockLines(bs) ==
    IF bs = <<>> THEN <<>>
    ELSE << <<"label", Head(bs).label>> >> \o InstLines(Head(bs).instrs)
           \o BlockLines(Tail(bs))

RECURSIVE ModuleText(_)
ModuleText(fs) ==
    IF fs = <<>> THEN <<>>
    ELSE << <<"define", Head(fs).name>> >> \o BlockLines(Head(fs).blocks)
           \o ModuleText(Tail(fs))

LLVMDumpModule_consuming(fs) == [text |-> ModuleText(fs), module |-> <<>>]

LLVMDumpModule(fs) == [text |-> ModuleText(fs), module |-> fs]

\* what a pass-manager run may leave of a block list: the pipeline is the
\* backend's; it keeps the blocks and may delete instructions
RemoveAt(s, k) == SubSeq(s, 1, k - 1) \o SubSeq(s, k + 1, Len(s))

Optimised(f) ==
    { f } \cup
    UNION { { [f EXCEPT !.blocks[bi].instrs = RemoveAt(@, k)] :
                k \in 1..Len(f.blocks[bi].instrs) } :
            bi \in 1..Len(f.blocks) }

InitBuilder ==
    /\ TypeIdle
    /\ IRIdle
    /\ HandlesIdle
    /\ BuilderIdle
    /\ DefIdle
    /\ BinOpIdle

\* LLVMModule::add_function (wrapper.rs:169-175), with a name not yet in
\* the module
AddFunction ==
    \E name \in FuncNames :
        /\ \A fi \in 1..Len(funcs) : funcs[fi].name # name
        /\ funcs' = Append(funcs, [name |-> name, blocks |-> <<>>])
        /\ dumpLog' = <<>>
        /\ UNCHANGED <<pos, nextId, lastBuild>>
        /\ UNCHANGED nonBuilderVars

\* LLVMContext::append_basic_block (wrapper.rs:137-143), with a label not
\* yet in the function
AppendBasicBlock ==
    \E fi \in 1..Len(funcs), label \in BlockLabels :
        /\ \A bi \in 1..Len(funcs[fi].blocks) : funcs[fi].blocks[bi].label # label
        /\ funcs' = [funcs EXCEPT ![fi].blocks =
                        Append(@, [label |-> label, instrs |-> <<>>])]
        /\ dumpLog' = <<>>
        /\ UNCHANGED <<pos, nextId, lastBuild>>
        /\ UNCHANGED nonBuilderVars

\* LLVMBuilder::set_position_at_end (wrapper.rs:287-289)
SetPositionAtEnd ==
    \E blk \in AllBlocks :
        /\ pos' = blk
        /\ UNCHANGED <<funcs, nextId, dumpLog, lastBuild>>
        /\ UNCHANGED nonBuilderVars

\* the instructions of the block the builder points to
BlockAt(fs, p) == IF p = None THEN <<>> ELSE fs[p[1]].blocks[p[2]].instrs

\* the values the builder calls have returned so far
Returned ==
    IF lastBuild = NotCalled THEN {}
    ELSE lastBuild.earlier \cup { lastBuild.ret }

\* One call of a builder method: res is what the backend's build function
\* did, the value it returned and the instruction it made (None when it
\* made none).  The wrapper hands the returned pointer back as an LLVMValue
\* (method_build_instr, wrapper.rs:262-277).
Build(by, args, res) ==
    /\ nextId < MaxInstrs
    /\ IF res.inst = None
       THEN UNCHANGED <<funcs, nextId, dumpLog>>
       ELSE /\ funcs' = InsertAt(funcs, pos, res.inst)
            /\ nextId' = nextId + 1
            /\ dumpLog' = <<>>
    /\ lastBuild' = [by |-> by, args |-> args, ret |-> res.ret, at |-> pos,
                     before |-> BlockAt(funcs, pos),
                     after |-> BlockAt(funcs', pos),
                     earlier |-> Returned]
    /\ UNCHANGED pos
    /\ UNCHANGED nonBuilderVars

\* a build function that always makes an instruction and returns it
Built(inst) ==
    Build(inst.by, <<inst.args, inst.given>>,
          [ret |-> InstValue(inst.id), inst |-> inst])

\* LLVMBuilder::phi (wrapper.rs:296)
BuildPhi ==
    Built(LLVMBuildPhi(nextId + 1, "i32", "phi", <<>>))

\* LLVMBuilder::phi_node (wrapper.rs:304-317)
BuildPhiNode ==
    /\ pos # None
    /\ \E incoming \in PairLists(BlocksOf(pos[1])) :
           Built(phi_node(nextId + 1, "i32", incoming))

\* LLVMBuilder::alloca (wrapper.rs:295)
BuildAlloca ==
    Built(Inst(nextId + 1, "alloca", <<"i32">>, "alloca", <<>>))

\* LLVMBuilder::store (wrapper.rs:298)
BuildStore ==
    Built(Inst(nextId + 1, "store", <<"a", "p">>, "store", <<>>))

\* LLVMBuilder::br (wrapper.rs:301)
BuildBr ==
    \E cont \in AllBlocks :
        Built(Inst(nextId + 1, "br", <<cont>>, "br", <<>>))

\* LLVMBuilder::load (wrapper.rs:297)
BuildLoad ==
    Built(Inst(nextId + 1, "load", <<"p">>, "load", <<>>))

\* LLVMBuilder::ret (wrapper.rs:299)
BuildRet ==
    Built(LLVMBuildRet(nextId + 1, "a", "ret"))

\* LLVMBuilder::ret_void (wrapper.rs:319-323): LLVMBuildRet of a null value
BuildRetVoid ==
    Built(LLVMBuildRet(nextId + 1, Null, "ret_void"))

\* LLVMBuilder::cond_br (wrapper.rs:300)
BuildCondBr ==
    \E then \in AllBlocks, el \in AllBlocks :
        Built(Inst(nextId + 1, "br", <<"c", then, el>>, "cond_br", <<>>))

\* LLVMBuilder::call (wrapper.rs:324-336)
BuildCall ==
    \E fi \in 1..Len(funcs) :
        Built(Inst(nextId + 1, "call", <<funcs[fi].name, <<"a">>>>, "call", <<>>))

\* LLVMBuilder::bit_cast (wrapper.rs:302)
BuildBitCast ==
    \E in \in BitCastInputs :
        Build("bit_cast", in, LLVMBuildBitCast(nextId + 1, in[1], in[2], "bit_cast"))

\* LLVMBuilder::struct_field_ptr (wrapper.rs:338-344)
BuildStructFieldPtr ==
    \E ptr \in StructPtrs :
        Build("struct_field_ptr", <<ptr, 0>>,
              LLVMBuildStructGEP(nextId + 1, ptr, 0, "struct_field_ptr"))

\* LLVMFunctionPassManager::run (wrapper.rs:197-201) on function fi
RunPasses ==
    \E fi \in 1..Len(funcs) :
        \E g \in Optimised(funcs[fi]) :
            /\ funcs' = [funcs EXCEPT ![fi] = g]
            /\ dumpLog' = <<>>
            /\ UNCHANGED <<pos, nextId, lastBuild>>
            /\ UNCHANGED nonBuilderVars

\* LLVMModule::dump (wrapper.rs:153-155)
Dump ==
    /\ Len(dumpLog) < MaxDumps
    /\ LET d == LLVMDumpModule(funcs)
       IN  /\ funcs' = d.module
           /\ dumpLog' = Append(dumpLog,
                                [text |-> d.text, pre |-> funcs, post |-> d.module])
    /\ UNCHANGED <<pos, nextId, lastBuild>>
    /\ UNCHANGED nonBuilderVars

NextBuilder ==
    \/ AddFunction
    \/ AppendBasicBlock
    \/ SetPositionAtEnd
    \/ BuildPhi
    \/ BuildPhiNode
    \/ BuildAlloca
    \/ BuildStore
    \/ BuildBr
    \/ RunPasses
    \/ Dump

SpecBuilder == InitBuilder /\ [][NextBuilder]_vars

\* Building alone: every builder method, on any function and block
NextBuild ==
    \/ AddFunction
    \/ AppendBasicBlock
    \/ SetPositionAtEnd
    \/ BuildAlloca
    \/ BuildPhi
    \/ BuildLoad
    \/ BuildStore
    \/ BuildRet
    \/ BuildRetVoid
    \/ BuildBr
    \/ BuildCondBr
    \/ BuildCall
    \/ BuildBitCast
    \/ BuildStructFieldPtr

SpecBuild == InitBuilder /\ [][NextBuild]_vars

AllInsts ==
    UNION { { funcs[blk[1]].blocks[blk[2]].instrs[k] :
                k \in 1..Len(funcs[blk[1]].blocks[blk[2]].instrs) } :
            blk \in AllBlocks }

(***************************************************************************)
(* C9: phi construction is two-phase: the phi is built without incoming    *)
(* pairs and the pairs are attached afterwards.  A phi made by phi_node    *)
(* from n (value, block) pairs has exactly n incoming pairs, the i-th      *)
(* value with the i-th block; given the two pairs of a diamond's two       *)
(* predecessors, in either order, it carries exactly those two pairs.  A   *)
(* phi made by phi has no incoming pair.                                   *)
(***************************************************************************)
C9_PhiPairs ==
    \A i \in AllInsts :
        /\ i.by = "phi" => (i.op = "phi" /\ i.vals = <<>> /\ i.blks = <<>>)
        /\ i.by = "phi_node" =>
               /\ i.op = "phi"
               /\ LLVMBuildPhi(i.id, i.args[1], i.by, i.given).vals = <<>>
               /\ LLVMBuildPhi(i.id, i.args[1], i.by, i.given).blks = <<>>
               /\ Len(i.vals) = Len(i.given)
               /\ Len(i.blks) = Len(i.given)
               /\ \A k \in 1..Len(i.given) :
                      /\ i.vals[k] = i.given[k].value
                      /\ i.blks[k] = i.given[k].block
               /\ Len(i.given) = 2 =>
                      { <<i.vals[k], i.blks[k]>> : k \in 1..2 } =
                      { <<BranchValue(funcs[b[1]].blocks[b[2]].label), b>> :
                          b \in { i.given[1].block, i.given[2].block } }

\* a phi was made by phi_node from the two pairs of a diamond, the pair of
\* the block appended second given first
C9_Witness ==
    \E i \in AllInsts :
        /\ i.by = "phi_node"
        /\ Len(i.given) = 2
        /\ i.given[1].block[2] = 2
        /\ i.given[1].value # i.given[2].value

(***************************************************************************)
(* C10: module dump is read-only and idempotent: a dump leaves the         *)
(* function list and every function body as they were, and the dumps made  *)
(* with no mutation in between (no add_function, no block or instruction   *)
(* added, no pass-manager run) all give the same text.                     *)
(***************************************************************************)
C10_DumpIdempotent ==
    /\ \A d \in 1..Len(dumpLog) :
           /\ dumpLog[d].pre = dumpLog[d].post
           /\ dumpLog[d].post = funcs
    /\ \A d, e \in 1..Len(dumpLog) : dumpLog[d].text = dumpLog[e].text

\* a module holding an instruction was dumped twice in a row
C10_Witness ==
    /\ Len(dumpLog) = 2
    /\ AllInsts # {}
    /\ dumpLog[2].text # <<>>

(***************************************************************************)
(* C13 as stated: every call to a builder operation (alloca, phi, load,    *)
(* store, ret, ret_void, br, cond_br, call, bit_cast, struct_field_ptr) on *)
(* a positioned builder appends exactly one new instruction at the         *)
(* builder's position and returns a handle to it, a value no earlier call  *)
(* returned.                                                               *)
(***************************************************************************)
AppendsOne(e) ==
    /\ e.at # None =>
           /\ Len(e.after) = Len(e.before) + 1
           /\ SubSeq(e.after, 1, Len(e.before)) = e.before
           /\ InstValue(e.after[Len(e.after)].id) = e.ret
           /\ e.after[Len(e.after)].by = e.by
    /\ e.ret \notin e.earlier

C13_Original == lastBuild # NotCalled => AppendsOne(lastBuild)

(***************************************************************************)
(* C13, amended: every call to a builder operation on a positioned builder *)
(* appends exactly one new instruction at the builder's position and       *)
(* returns a handle to it, a value no earlier call returned, except a      *)
(* bit_cast of a value that already has the destination type or is a       *)
(* constant and a struct_field_ptr of a constant pointer: these append     *)
(* nothing and return the operand or a constant expression.                *)
(***************************************************************************)
Folded(e) ==
    \/ /\ e.by = "bit_cast"
       /\ ValueType(e.args[1]) = e.args[2] \/ IsConstant(e.args[1])
    \/ /\ e.by = "struct_field_ptr"
       /\ IsConstant(e.args[1])

C13_AppendsOne ==
    lastBuild # NotCalled =>
        IF Folded(lastBuild)
        THEN /\ lastBuild.after = lastBuild.before
             /\ lastBuild.ret.value # "inst"
        ELSE AppendsOne(lastBuild)

\* the second of two calls of one operation with identical operands at one
\* position
C13_Witness ==
    /\ lastBuild # NotCalled
    /\ lastBuild.at # None
    /\ ~Folded(lastBuild)
    /\ Len(lastBuild.after) = 2
    /\ lastBuild.after[1].by = lastBuild.by
    /\ <<lastBuild.after[1].args, lastBuild.after[1].given>> = lastBuild.args
    /\ InstValue(lastBuild.after[1].id) \in lastBuild.earlier

(***************************************************************************)
(* Top level definitions and forms (src/src/syntax.rs).  A Def is          *)
(* [ident, node, pos]; its node is an Item: a Form, an Alias or an Alg.  A *)
(* Form is [node, tag] and its FormTag [pos, ty, annotate] carries the     *)
(* scheme of the node.  Every field is pub.  A panic ends the run.         *)
(***************************************************************************)
Unit == "()"
Some(v) == [tag |-> "Some", val |-> v]

\* Pos::new (syntax.rs:191-195)
Pos_new(l, c) == [line |-> l, col |-> c]

\* Expr::Abs(Lambda { param, body }) (syntax.rs:292-294, 312-316)
Abs(params, body) == [tag |-> "Abs", param |-> params, body |-> body]

\* Form::new (syntax.rs:109-118)
Form_new(p, exp) ==
    [node |-> exp, tag |-> [pos |-> p, ty |-> Slot, annotate |-> None]]

\* Form::typed (syntax.rs:119-128)
Form_typed(p, ty, exp) ==
    [node |-> exp, tag |-> [pos |-> p, ty |-> ty, annotate |-> None]]

\* Form::annotated (syntax.rs:129-138)
Form_annotated(p, anno, exp) ==
    [node |-> exp, tag |-> [pos |-> p, ty |-> Slot, annotate |-> Some(anno)]]

\* Form::abs (syntax.rs:139-151)
Form_abs(p, params, to) ==
    [node |-> Abs(params, to),
     tag |-> [pos |-> p, ty |-> Slot, annotate |-> None]]

\* FormTag::set_type (syntax.rs:165-167)
FormTag_set_type(tag, ty) == [tag EXCEPT !.ty = Mono(ty)]

\* FormTag::set_scheme (syntax.rs:169-171)
FormTag_set_scheme(tag, s) == [tag EXCEPT !.ty = s]

\* FormTag::ref_scheme (syntax.rs:181-183)
FormTag_ref_scheme(tag) == tag.ty

\* enum Item (syntax.rs:69-73)
Item_Form(f) == [item |-> "Form", form |-> f]
Item_Alias(s) == [item |-> "Alias", scheme |-> s]
Item_Alg(vs) == [item |-> "Alg", variants |-> vs]

\* Def::value (syntax.rs:23-29)
Def_value(p, name, body) == [ident |-> name, node |-> Item_Form(body), pos |-> p]

\* Def::is_form (syntax.rs:32-37)
Def_is_form(d) == d.node.item = "Form"

\* Def::set_form_scheme (syntax.rs:41-48): the Def after the call and the
\* outcome of the call
Def_set_form_scheme_unguarded(d, s) ==
    IF d.node.item = "Form"
    THEN [self |-> [d EXCEPT !.node.form.tag = FormTag_set_scheme(@, s)],
          out |-> Ok(Unit)]
    ELSE [self |-> d, out |-> Ok(Unit)]

Def_set_form_scheme(d, s) ==
    IF d.node.item = "Form"
    THEN [self |-> [d EXCEPT !.node.form.tag = FormTag_set_scheme(@, s)],
          out |-> Ok(Unit)]
    ELSE [self |-> d, out |-> Panic]

\* Def::form_type (syntax.rs:52-57)
Def_form_type(d) ==
    IF d.node.item = "Form" THEN Ok(FormTag_ref_scheme(d.node.form.tag))
    ELSE Panic

\* Def::form_body_mut (syntax.rs:60-65)
Def_form_body_mut(d) ==
    IF d.node.item = "Form" THEN Ok(d.node.form) ELSE Panic

\* the inputs
FormSchemes == { Mono(Con("Int")), Poly(<<"a">>, TVar("a")), Slot }
FormTypes == { Con("Int"), Con("Bool") }
Exprs == { Lit(1) }
DefPos == Pos_new(1, 1)
Forms ==
    UNION { { Form_new(DefPos, e) }
            \cup { Form_typed(DefPos, ty, e) : ty \in FormSchemes }
            \cup { Form_annotated(DefPos, Mono(Con("Int")), e) }
            \cup { Form_abs(DefPos, <<VarDecl("x", Slot)>>, Form_new(DefPos, e)) } :
            e \in Exprs }

\* the scheme a Def's form carries
SchemeOf(d) == IF Def_is_form(d) THEN FormTag_ref_scheme(d.node.form.tag) ELSE None

InitDef ==
    /\ TypeIdle
    /\ IRIdle
    /\ HandlesIdle
    /\ BuilderIdle
    /\ DefIdle
    /\ BinOpIdle

Defined(d) ==
    /\ def = None
    /\ def' = d
    /\ made' = d
    /\ UNCHANGED calls
    /\ UNCHANGED nonDefVars

\* Def::value on a form built by one of Form's constructors
DefValue == \E body \in Forms : Defined(Def_value(DefPos, "main", body))

\* a `type` definition: Def { ident, node: Item::Alias(..), pos }
DefAlias ==
    Defined([ident |-> "T", node |-> Item_Alias(Mono(Con("Int"))), pos |-> DefPos])

\* a `data` definition: Def { ident, node: Item::Alg(..), pos }
DefAlg ==
    Defined([ident |-> "D",
             node |-> Item_Alg(<<[name |-> "Nil", body |-> "Unit"]>>),
             pos |-> DefPos])

\* one call on the Def: d2 is the Def after it
Called(op, arg, out, d2) ==
    /\ Len(calls) < MaxCalls
    /\ IF calls = <<>> THEN TRUE ELSE calls[Len(calls)].out # Panic
    /\ calls' = Append(calls, [op |-> op, arg |-> arg, out |-> out,
                               pre |-> SchemeOf(def), post |-> SchemeOf(d2)])
    /\ def' = d2
    /\ UNCHANGED made
    /\ UNCHANGED nonDefVars

IsForm ==
    /\ def # None
    /\ Called("is_form", None, Ok(Def_is_form(def)), def)

SetFormScheme ==
    /\ def # None
    /\ \E s \in FormSchemes :
           Called("set_form_scheme", s, Def_set_form_scheme(def, s).out,
                  Def_set_form_scheme(def, s).self)

FormType ==
    /\ def # None
    /\ Called("form_type", None, Def_form_type(def), def)

FormBodyMut ==
    /\ def # None
    /\ Called("form_body_mut", None, Def_form_body_mut(def), def)

\* FormTag::set_type on the tag of the Def's form, reached through the pub
\* fields or through form_body_mut
SetType ==
    /\ def # None
    /\ Def_is_form(def)
    /\ \E ty \in FormTypes :
           Called("set_type", ty, Ok(Unit),
                  [def EXCEPT !.node.form.tag = FormTag_set_type(@, ty)])

\* FormTag::set_scheme on the same tag
SetScheme ==
    /\ def # None
    /\ Def_is_form(def)
    /\ \E s \in FormSchemes :
           Called("set_scheme", s, Ok(Unit),
                  [def EXCEPT !.node.form.tag = FormTag_set_scheme(@, s)])

NextDef ==
    \/ DefValue
    \/ DefAlias
    \/ DefAlg
    \/ IsForm
    \/ SetFormScheme
    \/ FormType
    \/ FormBodyMut
    \/ SetType
    \/ SetScheme

SpecDef == InitDef /\ [][NextDef]_vars

(***************************************************************************)
(* C12 as stated: over any sequence of set_scheme / set_type /             *)
(* set_form_scheme calls on one form, the form's scheme changes at most    *)
(* once, only from Slot, and only to a Mono or Poly scheme.                *)
(***************************************************************************)
SchemeChanges == { i \in DOMAIN calls : calls[i].pre # calls[i].post }

C12_SingleAssignment ==
    /\ Cardinality(SchemeChanges) <= 1
    /\ \A i \in SchemeChanges :
           /\ calls[i].pre = Slot
           /\ calls[i].post.tag \in { "Mono", "Poly" }

(***************************************************************************)
(* C14: on a Def whose item is Alias or Alg, set_form_scheme, form_type    *)
(* and form_body_mut each panic and leave the Def as it was, and is_form   *)
(* returns false; on a Def whose item is Form, is_form returns true and    *)
(* form_type right after set_form_scheme(s) returns s, with ident, pos and *)
(* the form's expression unchanged.                                        *)
(***************************************************************************)
FormAccessors == { "set_form_scheme", "form_type", "form_body_mut" }

C14_FormAccessors ==
    def # None =>
        /\ \A i \in DOMAIN calls :
               /\ calls[i].op = "is_form" =>
                      calls[i].out = Ok(made.node.item = "Form")
               /\ (made.node.item \in { "Alias", "Alg" }
                     /\ calls[i].op \in FormAccessors) =>
                      calls[i].out = Panic
               /\ (made.node.item = "Form" /\ calls[i].op = "form_type"
                     /\ i > 1 /\ calls[i - 1].op = "set_form_scheme") =>
                      calls[i].out = Ok(calls[i - 1].arg)
        /\ made.node.item \in { "Alias", "Alg" } => def = made
        /\ made.node.item = "Form" =>
               /\ def.node.item = "Form"
               /\ def.ident = made.ident
               /\ def.pos = made.pos
               /\ def.node.form.node = made.node.form.node

\* set_form_scheme was called on a `type` definition
C14_Witness ==
    /\ def # None
    /\ def.node.item = "Alias"
    /\ calls # <<>>
    /\ calls[Len(calls)].op = "set_form_scheme"
    /\ calls[Len(calls)].out = Panic

(***************************************************************************)
(* enum BinOp (syntax.rs:351-388) and its conversions to and from the      *)
(* operator's text (syntax.rs:389-430).                                    *)
(***************************************************************************)
BinOps == { "Add", "Sub", "Mul", "Div", "Rem", "And", "Or", "BitXor", "BitAnd",
            "BitOr", "Shl", "Shr", "Eq", "Lt", "Le", "Ne", "Ge", "Gt" }

\* BinOp::as_str (syntax.rs:390-412)
BinOp_as_str(op) ==
    CASE op = "Add" -> "+"
      [] op = "Sub" -> "-"
      [] op = "Mul" -> "*"
      [] op = "Div" -> "/"
      [] op = "Rem" -> "%"
      [] op = "And" -> "&&"
      [] op = "Or" -> "||"
      [] op = "BitXor" -> "^"
      [] op = "BitAnd" -> "&"
      [] op = "BitOr" -> "|"
      [] op = "Shl" -> "<<"
      [] op = "Shr" -> ">>"
      [] op = "Eq" -> "=="
      [] op = "Lt" -> "<"
      [] op = "Le" -> "<="
      [] op = "Ne" -> "!="
      [] op = "Ge" -> ">="
      [] op = "Gt" -> ">"

\* BinOp::take (syntax.rs:413-429): eleven arms and unreachable!()
BinOp_take_total(op_str) ==
    IF \E op \in BinOps : BinOp_as_str(op) = op_str
    THEN Ok(CHOOSE op \in BinOps : BinOp_as_str(op) = op_str)
    ELSE Panic

BinOp_take(op_str) ==
    CASE op_str = "+" -> Ok("Add")
      [] op_str = "-" -> Ok("Sub")
      [] op_str = "*" -> Ok("Mul")
      [] op_str = "/" -> Ok("Div")
      [] op_str = "%" -> Ok("Rem")
      [] op_str = "<" -> Ok("Lt")
      [] op_str = "<=" -> Ok("Le")
      [] op_str = "!=" -> Ok("Ne")
      [] op_str = ">=" -> Ok("Ge")
      [] op_str = ">" -> Ok("Gt")
      [] op_str = "==" -> Ok("Eq")
      [] OTHER -> Panic

\* the strings handed to take: every operator's text and some that are no
\* operator's text
OpStrings == { BinOp_as_str(op) : op \in BinOps } \cup { "", "=", "!", "++" }

InitBinOp ==
    /\ TypeIdle
    /\ IRIdle
    /\ HandlesIdle
    /\ BuilderIdle
    /\ DefIdle
    /\ BinOpIdle

\* one call; a panic ends the run
OpCalled(fn, arg, out) ==
    /\ Len(opCalls) < MaxOpCalls
    /\ IF opCalls = <<>> THEN TRUE ELSE opCalls[Len(opCalls)].out # Panic
    /\ opCalls' = Append(opCalls, [fn |-> fn, arg |-> arg, out |-> out])
    /\ UNCHANGED nonBinOpVars

CallAsStr == \E op \in BinOps : OpCalled("as_str", op, Ok(BinOp_as_str(op)))

CallTake == \E op_str \in OpStrings : OpCalled("take", op_str, BinOp_take(op_str))

NextBinOp ==
    \/ CallAsStr
    \/ CallTake

SpecBinOp == InitBinOp /\ [][NextBinOp]_vars

(***************************************************************************)
(* C15: as_str maps the 18 operators to 18 distinct strings; take is its   *)
(* inverse exactly on Add, Sub, Mul, Div, Rem, Lt, Le, Ne, Ge, Gt and Eq:  *)
(* take(op.as_str()) = op for these eleven, and for every other string,    *)
(* the as_str of And, Or, BitXor, BitAnd, BitOr, Shl and Shr included,     *)
(* take panics.                                                            *)
(***************************************************************************)
Invertible == { "Add", "Sub", "Mul", "Div", "Rem", "Lt", "Le", "Ne", "Ge", "Gt", "Eq" }

C15_TakeInverse ==
    /\ Cardinality(BinOps) = 18
    /\ Cardinality({ BinOp_as_str(op) : op \in BinOps }) = 18
    /\ Cardinality(Invertible) = 11
    /\ \A i \in DOMAIN opCalls :
           opCalls[i].fn = "take" =>
               /\ (\E op \in Invertible : opCalls[i].arg = BinOp_as_str(op)) =>
                      /\ opCalls[i].out # Panic
                      /\ opCalls[i].out.val \in Invertible
                      /\ BinOp_as_str(opCalls[i].out.val) = opCalls[i].arg
               /\ (\A op \in Invertible : opCalls[i].arg # BinOp_as_str(op)) =>
                      opCalls[i].out = Panic
               /\ (i > 1 /\ opCalls[i - 1].fn = "as_str"
                     /\ opCalls[i - 1].out = Ok(opCalls[i].arg)) =>
                      IF opCalls[i - 1].arg \in Invertible
                      THEN opCalls[i].out = Ok(opCalls[i - 1].arg)
                      ELSE opCalls[i].out = Panic

\* take was called on the text as_str gave for Shl
C15_Witness ==
    /\ Len(opCalls) = 2
    /\ opCalls[1].fn = "as_str"
    /\ opCalls[1].arg = "Shl"
    /\ opCalls[2].fn = "take"
    /\ opCalls[1].out = Ok(opCalls[2].arg)
    /\ opCalls[2].out = Panic

=============================================================================
